---- MODULE Spec2Model ----
(***************************************************************************)
(* bbbb.py: backup of a remote block device's btrfs subvolume into a local *)
(* image file.  The model follows main(), create_initial_image() and       *)
(* run_backup() command by command.  Every external command (subprocess,   *)
(* remote exec_command, file operation) is one step whose outcome is       *)
(* chosen by the environment; the program's reaction to the outcome        *)
(* (check=True, an explicit returncode test, or no test at all) is taken   *)
(* from the source.                                                        *)
(***************************************************************************)
EXTENDS Integers, Sequences, FiniteSets, TLC

(***************************************************************************)
(* Bounds                                                                  *)
(***************************************************************************)
\* number of consecutive invocations of the program against the same file
MaxRuns == 2

(***************************************************************************)
(* Text.  A listing is the result of output.strip().split('\n'): a         *)
(* sequence of lines; a line is the result of line.split(':'): a sequence  *)
(* of fields.  A field is a number with or without a trailing 'B', or      *)
(* some other text.                                                        *)
(***************************************************************************)
NumB(k) == [kind |-> "num", n |-> k, s |-> "", B |-> TRUE]
Num(k) == [kind |-> "num", n |-> k, s |-> "", B |-> FALSE]
Txt(t) == [kind |-> "txt", n |-> 0, s |-> t, B |-> FALSE]

\* str.rstrip('B')
rstripB(f) == [f EXCEPT !.B = FALSE]

\* int(str) succeeds only on a bare number
IsInt(f) == f.kind = "num" /\ ~f.B
int(f) == f.n

(***************************************************************************)
(* parse_parted_output                                                     *)
(***************************************************************************)
RECURSIVE ParseLines_SizeIsEnd(_, _, _)
\* the loop with the size taken to be the end offset
ParseLines_SizeIsEnd(lines, i, acc) ==
    IF i > Len(lines) THEN [err |-> "none", partitions |-> acc]
    ELSE LET fields == lines[i] IN
         IF Len(fields) < 5 THEN ParseLines_SizeIsEnd(lines, i + 1, acc)
         ELSE LET start == rstripB(fields[2])
                  end == rstripB(fields[3])
              IN IF ~(IsInt(end) /\ IsInt(start))
                 THEN [err |-> "ValueError", partitions |-> <<>>]
                 ELSE ParseLines_SizeIsEnd(lines, i + 1,
                        Append(acc, [part_num |-> fields[1],
                                     size |-> int(end),
                                     start |-> start,
                                     fs_type |-> fields[5]]))

RECURSIVE ParseLines(_, _, _)
ParseLines(lines, i, acc) ==
    IF i > Len(lines) THEN [err |-> "none", partitions |-> acc]
    ELSE LET fields == lines[i] IN
         IF Len(fields) < 5 THEN ParseLines(lines, i + 1, acc)
         ELSE LET start == rstripB(fields[2])
                  end == rstripB(fields[3])
              IN IF ~(IsInt(end) /\ IsInt(start))
                 THEN [err |-> "ValueError", partitions |-> <<>>]
                 ELSE ParseLines(lines, i + 1,
                        Append(acc, [part_num |-> fields[1],
                                     size |-> int(end) - int(start),
                                     start |-> start,
                                     fs_type |-> fields[5]]))

NoGeometry(e) == [err |-> e, disk_size |-> Txt(""), partitions |-> <<>>]

\* the parser accepting a listing of two lines
parse_parted_output_Min2(lines) ==
    IF Len(lines) < 2 THEN NoGeometry("ValueError")
    ELSE IF Len(lines[2]) < 2 THEN NoGeometry("IndexError")
    ELSE LET r == ParseLines(lines, 3, <<>>) IN
         IF r.err # "none" THEN NoGeometry(r.err)
         ELSE [err |-> "none", disk_size |-> rstripB(lines[2][2]),
               partitions |-> r.partitions]

parse_parted_output(lines) ==
    IF Len(lines) < 3 THEN NoGeometry("ValueError")
    ELSE IF Len(lines[2]) < 2 THEN NoGeometry("IndexError")
    ELSE LET r == ParseLines(lines, 3, <<>>) IN
         IF r.err # "none" THEN NoGeometry(r.err)
         ELSE [err |-> "none", disk_size |-> rstripB(lines[2][2]),
               partitions |-> r.partitions]

(***************************************************************************)
(* get_btrfs_partition_offset: start of the first partition of type btrfs  *)
(***************************************************************************)
RECURSIVE FirstBtrfs(_, _)
FirstBtrfs(partitions, i) ==
    IF i > Len(partitions) THEN 0
    ELSE IF partitions[i].fs_type = Txt("btrfs") THEN i
    ELSE FirstBtrfs(partitions, i + 1)

get_btrfs_partition_offset(partitions) ==
    LET i == FirstBtrfs(partitions, 1) IN
    IF i = 0 THEN [err |-> "ValueError", off |-> 0]
    ELSE IF ~IsInt(partitions[i].start) THEN [err |-> "ValueError", off |-> 0]
    ELSE [err |-> "none", off |-> int(partitions[i].start)]

(***************************************************************************)
(* The remote devices of the model: what                                   *)
(* "parted --machine <device> unit B print" prints for each.               *)
(***************************************************************************)
Header == <<Txt("BYT;")>>
DiskLine(sz) == <<Txt("/dev/sda"), NumB(sz), Txt("scsi"), Num(512), Num(512),
                  Txt("msdos"), Txt("model"), Txt(";")>>
PartLine(k, s, e, t) == <<Num(k), NumB(s), NumB(e), NumB(e - s + 1), Txt(t),
                          Txt(""), Txt(";")>>

Listings ==
    << \* boot partition, then the btrfs partition as partition 2
       <<Header, DiskLine(8192), PartLine(1, 1024, 2047, "fat32"),
         PartLine(2, 2048, 8191, "btrfs")>>,
       \* btrfs partition not aligned to 1024 bytes
       <<Header, DiskLine(8192), PartLine(1, 512, 2559, "fat32"),
         PartLine(2, 2560, 8191, "btrfs")>>,
       \* the first btrfs partition is partition 1
       <<Header, DiskLine(8192), PartLine(1, 1024, 4095, "btrfs"),
         PartLine(2, 4096, 8191, "ext4")>>,
       \* no btrfs partition
       <<Header, DiskLine(4096), PartLine(1, 1024, 4095, "ext4")>>,
       \* no partition table entries
       <<Header, DiskLine(4096)>>,
       \* parted failed on the remote host: empty output
       <<<<Txt("")>>>> >>

Devices == 1 .. Len(Listings)

\* sizes a file found at the output path before the first run may have
PreSizes == {4096, 8192}


(***************************************************************************)
(* Subvolume names are strings compared character by character; a name is  *)
(* a sequence of character codes.                                          *)
(***************************************************************************)
subvolume == <<64>>                    \* "@"
Prefix == subvolume \o <<46>>          \* "@."
Snap1 == <<64, 46, 49>>                \* "@.1"
Snap2 == <<64, 46, 50>>                \* "@.2"
Other == <<64, 104, 46, 51>>           \* "@h.3"
NoName == <<>>                         \* None / ""

\* the snapshot names the sync engine may create on the target
SnapPool == {Snap1, Snap2}
\* subvolumes a file found before the first run may already hold
PreSubvols == {<<>>, <<Snap1>>, <<Other>>}

startswith(name, pre) ==
    Len(name) >= Len(pre) /\ SubSeq(name, 1, Len(pre)) = pre

RECURSIVE StrGt(_, _)
\* a > b for Python strings
StrGt(a, b) ==
    IF a = <<>> THEN FALSE
    ELSE IF b = <<>> THEN TRUE
    ELSE IF Head(a) # Head(b) THEN Head(a) > Head(b)
    ELSE StrGt(Tail(a), Tail(b))

RECURSIVE NewestSnapshot_Last(_, _, _)
\* the loop without the comparison: the last matching name wins
NewestSnapshot_Last(lines, i, newest) ==
    IF i > Len(lines) THEN newest
    ELSE IF lines[i].nf < 9 THEN NewestSnapshot_Last(lines, i + 1, newest)
    ELSE IF ~startswith(lines[i].name, Prefix)
         THEN NewestSnapshot_Last(lines, i + 1, newest)
    ELSE NewestSnapshot_Last(lines, i + 1, lines[i].name)

RECURSIVE NewestSnapshot(_, _, _)
\* the loop of run_backup over the lines of "btrfs subvolume list";
\* a line is [nf: number of whitespace-separated fields, name: fields[8]]
NewestSnapshot(lines, i, newest) ==
    IF i > Len(lines) THEN newest
    ELSE IF lines[i].nf < 9 THEN NewestSnapshot(lines, i + 1, newest)
    ELSE IF ~startswith(lines[i].name, Prefix)
         THEN NewestSnapshot(lines, i + 1, newest)
    ELSE IF newest = NoName \/ StrGt(lines[i].name, newest)
         THEN NewestSnapshot(lines, i + 1, lines[i].name)
    ELSE NewestSnapshot(lines, i + 1, newest)

(***************************************************************************)
(* State                                                                   *)
(***************************************************************************)
VARIABLES
    pc,             \* position of the program; "idle" before the first run
    runs,           \* invocations so far
    dev,            \* the remote device (index into Listings)
    file,           \* the output file and what it holds
    loopBound,      \* /dev/loop0 is bound to the output file
    localMounted,   \* a filesystem is mounted at the local /mnt
    remoteMounted,  \* the remote btrfs partition is mounted at the remote /mnt
    geo,            \* disk_size, partitions of create_initial_image
    uuid,           \* uuid of create_initial_image (TRUE: non-empty)
    btrfs_start,    \* btrfs_start of create_initial_image
    lines,          \* lines of run_backup
    newest_snapshot,\* newest_snapshot of run_backup
    exc,            \* the exception in flight or delivered, by raising site
    ctx,            \* __context__ of exc: the exception it replaced
    exitCode,       \* exit status of the run; -1 while it runs
    log,            \* commands issued in this run, in order
    atStart,        \* file and mount state when the run began
    arg,            \* arguments of the function called on its own
    ret             \* what that function returned

vars == <<pc, runs, dev, file, loopBound, localMounted, remoteMounted, geo,
          uuid, btrfs_start, lines, newest_snapshot, exc, ctx, exitCode, log,
          atStart, arg, ret>>

NoFile == [exists |-> FALSE, size |-> 0, copied |-> 0, fs |-> FALSE,
           rw |-> "absent", rwSrc |-> NoName, isDefault |-> FALSE,
           subvols |-> <<>>]

\* an image left by an earlier, complete initialization and backup
PreFile(sz, sv) == [exists |-> TRUE, size |-> sz, copied |-> 2048, fs |-> TRUE,
                    rw |-> "orig", rwSrc |-> NoName, isDefault |-> TRUE,
                    subvols |-> sv]

World == [file |-> file, loopBound |-> loopBound,
          localMounted |-> localMounted, remoteMounted |-> remoteMounted]

Init ==
    /\ pc = "idle"
    /\ runs = 0
    /\ dev \in Devices
    /\ file \in {NoFile} \cup {PreFile(sz, sv) : sz \in PreSizes, sv \in PreSubvols}
    /\ loopBound = FALSE
    /\ localMounted = FALSE
    /\ remoteMounted = FALSE
    /\ geo = NoGeometry("none")
    /\ uuid = FALSE
    /\ btrfs_start = 0
    /\ lines = <<>>
    /\ newest_snapshot = NoName
    /\ exc = "none"
    /\ ctx = "none"
    /\ exitCode = -1
    /\ log = <<>>
    /\ atStart = [file |-> file, loopBound |-> FALSE, localMounted |-> FALSE,
                  remoteMounted |-> FALSE]
    /\ arg = <<>>
    /\ ret = <<>>

Locals == <<geo, uuid, btrfs_start, lines, newest_snapshot>>
Mounts == <<loopBound, localMounted, remoteMounted>>

\* the process ends with status code; e is the exception that ended it
Exit(code, e) ==
    /\ pc' = "exited"
    /\ exitCode' = code
    /\ exc' = e

Issue(cmd) == log' = Append(log, cmd)

(***************************************************************************)
(* main                                                                    *)
(***************************************************************************)
\* a new invocation of the program
StartRun ==
    /\ pc \in {"idle", "exited"}
    /\ runs < MaxRuns
    /\ runs' = runs + 1
    /\ pc' = "connect"
    /\ geo' = NoGeometry("none")
    /\ uuid' = FALSE
    /\ btrfs_start' = 0
    /\ lines' = <<>>
    /\ newest_snapshot' = NoName
    /\ exc' = "none"
    /\ ctx' = "none"
    /\ exitCode' = -1
    /\ log' = <<>>
    /\ atStart' = World
    /\ UNCHANGED <<dev, file, Mounts, arg, ret>>

\* ssh.connect; SSHException -> sys.exit(1)
Connect ==
    /\ pc = "connect"
    /\ \E ok \in BOOLEAN :
         IF ok THEN pc' = "stat" /\ UNCHANGED <<exc, exitCode>>
         ELSE Exit(1, "SSHException")
    /\ UNCHANGED <<runs, dev, file, Mounts, Locals, ctx, log, atStart, arg, ret>>

\* the returncode test inverted
StatFails_Inverted == file.exists

\* stat -c %s output: returncode # 0 when the file does not exist
StatFails == ~file.exists

\* returncode # 0: print("Creating initial image...") and create_initial_image
Stat ==
    /\ pc = "stat"
    /\ IF StatFails
       THEN log' = log \o <<"stat", "Creating initial image...">>
            /\ pc' = "init_probe"
       ELSE Issue("stat") /\ pc' = "check_size"
    /\ UNCHANGED <<runs, dev, file, Mounts, Locals, exc, ctx, exitCode, atStart, arg, ret>>

\* get_partitions_ssh: the remote listing, parsed; the exit status of the
\* remote command is not looked at
get_partitions_ssh == parse_parted_output(Listings[dev])

\* the comparison only catching a file that is too small
SizeMismatch_Less(local_size, remote_size) == local_size < int(remote_size)

\* local_size != int(remote_size)
SizeMismatch(local_size, remote_size) == local_size # int(remote_size)

\* the else branch: the file exists, compare its size with the remote disk
CheckSize ==
    /\ pc = "check_size"
    /\ Issue("parted_remote")
    /\ LET r == get_partitions_ssh IN
       IF r.err # "none" THEN Exit(1, r.err)
       ELSE IF ~IsInt(r.disk_size) THEN Exit(1, "ValueError")
       ELSE IF SizeMismatch(file.size, r.disk_size) THEN Exit(1, "SystemExit")
       ELSE pc' = "bk_probe" /\ UNCHANGED <<exc, exitCode>>
    /\ UNCHANGED <<runs, dev, file, Mounts, Locals, ctx, atStart, arg, ret>>

(***************************************************************************)
(* create_initial_image.  An exception raised here is caught by main's     *)
(* "except Exception", which prints it and exits with status 1.            *)
(***************************************************************************)
\* disk_size, partitions = get_partitions_ssh(...); if not partitions: raise
InitProbe ==
    /\ pc = "init_probe"
    /\ Issue("parted_remote")
    /\ LET r == get_partitions_ssh IN
       IF r.err # "none" THEN Exit(1, r.err) /\ UNCHANGED geo
       ELSE IF r.partitions = <<>> THEN Exit(1, "ValueError") /\ UNCHANGED geo
       ELSE pc' = "init_blkid" /\ geo' = r /\ UNCHANGED <<exc, exitCode>>
    /\ UNCHANGED <<runs, dev, file, Mounts, uuid, btrfs_start, lines,
                   newest_snapshot, ctx, atStart, arg, ret>>

\* blkid of remote partition 2; an empty answer raises
InitBlkid ==
    /\ pc = "init_blkid"
    /\ Issue("blkid")
    /\ \E got \in BOOLEAN :
         IF got THEN pc' = "init_remount" /\ uuid' = TRUE
                     /\ UNCHANGED <<exc, exitCode>>
         ELSE Exit(1, "ValueError") /\ UNCHANGED uuid
    /\ UNCHANGED <<runs, dev, file, Mounts, geo, btrfs_start, lines,
                   newest_snapshot, ctx, atStart, arg, ret>>

\* mount -o remount,ro of remote partition 1; the outcome is not looked at
InitRemount ==
    /\ pc = "init_remount"
    /\ Issue("remount_ro")
    /\ pc' = "init_truncate"
    /\ UNCHANGED <<runs, dev, file, Mounts, Locals, exc, ctx, exitCode, atStart, arg, ret>>

\* open(output_file, 'wb'); f.truncate(int(disk_size))
InitTruncate ==
    /\ pc = "init_truncate"
    /\ Issue("truncate")
    /\ \E res \in {"ok", "open_fails", "truncate_fails"} :
         CASE res = "open_fails" ->
                Exit(1, "OSError") /\ UNCHANGED file
           [] res = "truncate_fails" \/ ~IsInt(geo.disk_size) ->
                /\ file' = [NoFile EXCEPT !.exists = TRUE]
                /\ Exit(1, IF IsInt(geo.disk_size) THEN "OSError" ELSE "ValueError")
           [] OTHER ->
                /\ file' = [NoFile EXCEPT !.exists = TRUE,
                                          !.size = int(geo.disk_size)]
                /\ pc' = "init_offset"
                /\ UNCHANGED <<exc, exitCode>>
    /\ UNCHANGED <<runs, dev, Mounts, Locals, ctx, atStart, arg, ret>>

\* btrfs_start = get_btrfs_partition_offset(partitions)
InitOffset ==
    /\ pc = "init_offset"
    /\ LET r == get_btrfs_partition_offset(geo.partitions) IN
       IF r.err # "none" THEN Exit(1, r.err) /\ UNCHANGED btrfs_start
       ELSE pc' = "init_copy" /\ btrfs_start' = r.off
            /\ UNCHANGED <<exc, exitCode>>
    /\ UNCHANGED <<runs, dev, file, Mounts, geo, uuid, lines, newest_snapshot,
                   ctx, log, atStart, arg, ret>>

\* bytes asked of "dd if=<device> bs=1K count=<btrfs_start // 1024>"
CopyRequest(start) == (start \div 1024) * 1024

\* the copy loop: whatever arrives on the channel is written at the front of
\* the file; neither the byte count nor dd's exit status is looked at
InitCopy ==
    /\ pc = "init_copy"
    /\ Issue("dd")
    /\ \E res \in {"all", "short", "none", "open_fails"} :
         CASE res = "open_fails" ->
                Exit(1, "OSError") /\ UNCHANGED file
           [] OTHER ->
                LET want == CopyRequest(btrfs_start)
                    recv == CASE res = "all" -> want
                              [] res = "short" -> IF want > 512 THEN 512 ELSE 0
                              [] OTHER -> 0
                IN /\ file' = [file EXCEPT !.copied = recv]
                   /\ pc' = "init_losetup"
                   /\ UNCHANGED <<exc, exitCode>>
    /\ UNCHANGED <<runs, dev, Mounts, Locals, ctx, atStart, arg, ret>>

\* losetup ... check=True
InitLosetup ==
    /\ pc = "init_losetup"
    /\ Issue("losetup")
    /\ \E ok \in BOOLEAN :
         /\ ok => ~loopBound
         /\ IF ok THEN loopBound' = TRUE /\ pc' = "init_mkfs"
                       /\ UNCHANGED <<exc, exitCode>>
            ELSE Exit(1, "CalledProcessError") /\ UNCHANGED loopBound
    /\ UNCHANGED <<runs, dev, file, localMounted, remoteMounted, Locals, ctx,
                   atStart, arg, ret>>

\* /dev/loop0p2 exists when the image holds a partition table with a
\* second entry
HasPart2(f) == f.exists /\ f.copied >= 512 /\ Len(Listings[dev]) >= 4

\* mkfs.btrfs --uuid <uuid> /dev/loop0p2, check=True
InitMkfs ==
    /\ pc = "init_mkfs"
    /\ Issue("mkfs")
    /\ \E ok \in BOOLEAN :
         /\ ok => HasPart2(file)
         /\ IF ok THEN /\ file' = [file EXCEPT !.fs = TRUE]
                       /\ pc' = "init_detach"
                       /\ UNCHANGED <<exc, exitCode>>
            ELSE Exit(1, "CalledProcessError") /\ UNCHANGED file
    /\ UNCHANGED <<runs, dev, Mounts, Locals, ctx, atStart, arg, ret>>

\* losetup --detach /dev/loop0, check=True; then back in main: run_backup
InitDetach ==
    /\ pc = "init_detach"
    /\ Issue("detach")
    /\ \E ok \in BOOLEAN :
         IF ok THEN loopBound' = FALSE /\ pc' = "bk_probe"
                    /\ UNCHANGED <<exc, exitCode>>
         ELSE Exit(1, "CalledProcessError") /\ UNCHANGED loopBound
    /\ UNCHANGED <<runs, dev, file, localMounted, remoteMounted, Locals, ctx,
                   atStart, arg, ret>>

(***************************************************************************)
(* run_backup.  main calls it outside its try block: an exception that     *)
(* leaves run_backup ends the process with a traceback and status 1.       *)
(***************************************************************************)
\* get_partitions_local: parted on the image file; returncode # 0 raises
BkProbe ==
    /\ pc = "bk_probe"
    /\ Issue("parted_local")
    /\ \E ok \in BOOLEAN :
         /\ ok => file.copied >= 512
         /\ IF ~ok THEN Exit(1, "RuntimeError:parted")
            ELSE LET r == parse_parted_output(Listings[dev]) IN
                 IF r.err # "none" THEN Exit(1, r.err)
                 ELSE pc' = "bk_losetup" /\ UNCHANGED <<exc, exitCode>>
    /\ UNCHANGED <<runs, dev, file, Mounts, Locals, ctx, atStart, arg, ret>>

\* losetup /dev/loop0 --partscan <file>, check=True, before the try block
BkLosetup ==
    /\ pc = "bk_losetup"
    /\ Issue("losetup")
    /\ \E ok \in BOOLEAN :
         /\ ok => ~loopBound
         /\ IF ok THEN loopBound' = TRUE /\ pc' = "bk_mount_local"
                       /\ UNCHANGED <<exc, exitCode>>
            ELSE Exit(1, "CalledProcessError:losetup") /\ UNCHANGED loopBound
    /\ UNCHANGED <<runs, dev, file, localMounted, remoteMounted, Locals, ctx,
                   atStart, arg, ret>>

\* mount /dev/loop0p2 -o subvolid=5 /mnt, check=True, before the try block
BkMountLocal ==
    /\ pc = "bk_mount_local"
    /\ Issue("mount_local")
    /\ \E ok \in BOOLEAN :
         /\ ok => (HasPart2(file) /\ file.fs)
         /\ IF ok THEN localMounted' = TRUE /\ pc' = "bk_mount_remote"
                       /\ UNCHANGED <<exc, exitCode>>
            ELSE Exit(1, "CalledProcessError:mount") /\ UNCHANGED localMounted
    /\ UNCHANGED <<runs, dev, file, loopBound, remoteMounted, Locals, ctx,
                   atStart, arg, ret>>

\* remote mount through exec_command: stderr is printed, the exit status is
\* not looked at
BkMountRemote ==
    /\ pc = "bk_mount_remote"
    /\ \E ok \in BOOLEAN :
         /\ remoteMounted' = (remoteMounted \/ ok)
         /\ Issue(IF ok THEN "mount_remote" ELSE "mount_remote_failed")
    /\ pc' = "bk_config"
    /\ UNCHANGED <<runs, dev, file, loopBound, localMounted, Locals, exc, ctx,
                   exitCode, atStart, arg, ret>>

\* the btrbk configuration is written to /tmp/btrbk.conf, before the try block
BkConfig ==
    /\ pc = "bk_config"
    /\ \E ok \in BOOLEAN :
         IF ok THEN pc' = "bk_sync" /\ UNCHANGED <<exc, exitCode>>
         ELSE Exit(1, "OSError:config")
    /\ UNCHANGED <<runs, dev, file, Mounts, Locals, ctx, log, atStart, arg, ret>>

\* an exception raised inside the try block: control goes to the finally
\* block with the exception pending
RaiseInTry(e) ==
    /\ exc' = e
    /\ pc' = "bk_umount"
    /\ UNCHANGED exitCode

\* btrbk --config ... run, check=True; a run may add a snapshot of the
\* subvolume to the target
BkSync ==
    /\ pc = "bk_sync"
    /\ Issue("btrbk")
    /\ \E ok \in BOOLEAN :
         IF ok THEN
            /\ \E new \in {NoName} \cup
                    {n \in SnapPool : \A i \in 1 .. Len(file.subvols) :
                                         file.subvols[i] # n} :
                 file' = IF new = NoName THEN file
                         ELSE [file EXCEPT !.subvols = Append(@, new)]
            /\ pc' = "bk_delete"
            /\ UNCHANGED <<exc, exitCode>>
         ELSE RaiseInTry("CalledProcessError:btrbk") /\ UNCHANGED file
    /\ UNCHANGED <<runs, dev, Mounts, Locals, ctx, atStart, arg, ret>>

\* btrfs subvolume delete /mnt/@ without check: the outcome is not looked at
BkDelete ==
    /\ pc = "bk_delete"
    /\ Issue("subvol_delete")
    /\ \E ok \in BOOLEAN :
         /\ ok => file.rw # "absent"
         /\ file' = IF ok THEN [file EXCEPT !.rw = "absent", !.rwSrc = NoName,
                                            !.isDefault = FALSE]
                    ELSE file
    /\ pc' = "bk_list"
    /\ UNCHANGED <<runs, dev, Mounts, Locals, exc, ctx, exitCode, atStart, arg, ret>>

\* what "btrfs subvolume list /mnt" prints, after strip().split('\n')
SubvolLine(n) == [nf |-> 9, name |-> n]
\* an empty output gives one line without fields
EmptyLine == [nf |-> 0, name |-> NoName]

SubvolListing(f) ==
    LET names == (IF f.rw = "absent" THEN <<>> ELSE <<subvolume>>) \o f.subvols
    IN IF names = <<>> THEN <<EmptyLine>>
       ELSE [i \in 1 .. Len(names) |-> SubvolLine(names[i])]

\* btrfs subvolume list /mnt; returncode # 0 raises RuntimeError
BkList ==
    /\ pc = "bk_list"
    /\ Issue("subvol_list")
    /\ \E ok \in BOOLEAN :
         IF ok THEN /\ lines' = SubvolListing(file)
                    /\ pc' = "bk_select"
                    /\ UNCHANGED <<exc, exitCode>>
         ELSE RaiseInTry("RuntimeError:list") /\ UNCHANGED lines
    /\ UNCHANGED <<runs, dev, file, Mounts, geo, uuid, btrfs_start,
                   newest_snapshot, ctx, atStart, arg, ret>>

\* the selection loop; no snapshot raises ValueError
BkSelect ==
    /\ pc = "bk_select"
    /\ LET newest == NewestSnapshot(lines, 1, NoName) IN
       /\ newest_snapshot' = newest
       /\ IF newest = NoName THEN RaiseInTry("ValueError:nosnap")
          ELSE pc' = "bk_snapshot" /\ UNCHANGED <<exc, exitCode>>
    /\ UNCHANGED <<runs, dev, file, Mounts, geo, uuid, btrfs_start, lines, ctx,
                   log, atStart, arg, ret>>

\* btrfs subvolume snapshot /mnt/<newest> /mnt/@, check=True.  When /mnt/@
\* still exists the snapshot is created inside it and /mnt/@ stays as it is.
BkSnapshot ==
    /\ pc = "bk_snapshot"
    /\ Issue("subvol_snapshot")
    /\ \E ok \in BOOLEAN :
         IF ok THEN
            /\ file' = IF file.rw = "absent"
                       THEN [file EXCEPT !.rw = "snap", !.rwSrc = newest_snapshot]
                       ELSE file
            /\ pc' = "bk_set_default"
            /\ UNCHANGED <<exc, exitCode>>
         ELSE RaiseInTry("CalledProcessError:snapshot") /\ UNCHANGED file
    /\ UNCHANGED <<runs, dev, Mounts, Locals, ctx, atStart, arg, ret>>

\* btrfs subvolume set-default /mnt/@, check=True; the try block ends
BkSetDefault ==
    /\ pc = "bk_set_default"
    /\ Issue("set_default")
    /\ \E ok \in BOOLEAN :
         IF ok THEN /\ file' = [file EXCEPT !.isDefault = TRUE]
                    /\ pc' = "bk_umount"
                    /\ UNCHANGED <<exc, exitCode>>
         ELSE RaiseInTry("CalledProcessError:set-default") /\ UNCHANGED file
    /\ UNCHANGED <<runs, dev, Mounts, Locals, ctx, atStart, arg, ret>>

\* an exception raised inside the finally block leaves run_backup at once;
\* the pending exception, if any, becomes its __context__
RaiseInFinally(e) ==
    /\ ctx' = exc
    /\ Exit(1, e)

\* finally: umount /mnt, check=True
BkUmount ==
    /\ pc = "bk_umount"
    /\ Issue("umount_local")
    /\ \E ok \in BOOLEAN :
         /\ ok => localMounted
         /\ IF ok THEN localMounted' = FALSE /\ pc' = "bk_detach"
                       /\ UNCHANGED <<exc, ctx, exitCode>>
            ELSE RaiseInFinally("CalledProcessError:umount")
                 /\ UNCHANGED localMounted
    /\ UNCHANGED <<runs, dev, file, loopBound, remoteMounted, Locals, atStart, arg, ret>>

\* finally: losetup --detach /dev/loop0, check=True
BkDetach ==
    /\ pc = "bk_detach"
    /\ Issue("detach")
    /\ \E ok \in BOOLEAN :
         IF ok THEN loopBound' = FALSE /\ pc' = "bk_umount_remote"
                    /\ UNCHANGED <<exc, ctx, exitCode>>
         ELSE RaiseInFinally("CalledProcessError:detach") /\ UNCHANGED loopBound
    /\ UNCHANGED <<runs, dev, file, localMounted, remoteMounted, Locals, atStart, arg, ret>>

\* finally: remote umount through exec_command, outcome not looked at; then
\* the pending exception is re-raised, or run_backup returns and main
\* closes the connection and ends with status 0
BkUmountRemote ==
    /\ pc = "bk_umount_remote"
    /\ Issue("umount_remote")
    /\ \E ok \in BOOLEAN : remoteMounted' = (remoteMounted /\ ~ok)
    /\ IF exc = "none" THEN Exit(0, "none") ELSE Exit(1, exc)
    /\ UNCHANGED <<runs, dev, file, loopBound, localMounted, Locals, ctx, atStart, arg, ret>>

Next ==
    \/ StartRun
    \/ Connect
    \/ Stat
    \/ CheckSize
    \/ InitProbe
    \/ InitBlkid
    \/ InitRemount
    \/ InitTruncate
    \/ InitOffset
    \/ InitCopy
    \/ InitLosetup
    \/ InitMkfs
    \/ InitDetach
    \/ BkProbe
    \/ BkLosetup
    \/ BkMountLocal
    \/ BkMountRemote
    \/ BkConfig
    \/ BkSync
    \/ BkDelete
    \/ BkList
    \/ BkSelect
    \/ BkSnapshot
    \/ BkSetDefault
    \/ BkUmount
    \/ BkDetach
    \/ BkUmountRemote

Spec == Init /\ [][Next]_vars

(***************************************************************************)
(* Observations on a run                                                   *)
(***************************************************************************)
Has(cmd) == \E i \in 1 .. Len(log) : log[i] = cmd
Count(cmd) == Cardinality({i \in 1 .. Len(log) : log[i] = cmd})

\* run_backup was entered in this run: PROBE was issued
SessionStarted == Has("parted_local")
\* the run is over and it had entered run_backup
SessionOver == pc = "exited" /\ SessionStarted
\* CLEANUP was entered
CleanupBegun == Has("umount_local")
\* every release step of CLEANUP was attempted
CleanupComplete ==
    Has("umount_local") /\ Has("umount_remote") /\
    \E i, j \in 1 .. Len(log) :
        i < j /\ log[i] = "umount_local" /\ log[j] = "detach"
\* the positions of the log that belong to run_backup
SessIdx == {i \in 1 .. Len(log) : \E j \in 1 .. i : log[j] = "parted_local"}
\* the sync engine exited non-zero in this run
SyncFailed == "CalledProcessError:btrbk" \in {exc, ctx}
\* create_initial_image was called in this run
InitializerRan == Has("Creating initial image...")
InitPcs == {"init_probe", "init_blkid", "init_remount", "init_truncate",
            "init_offset", "init_copy", "init_losetup", "init_mkfs",
            "init_detach"}
AfterRotate == {"bk_umount", "bk_detach", "bk_umount_remote", "exited"}

(***************************************************************************)
(* C1: in a backup session, whenever PROBE, MOUNT, SYNC or ROTATE fails,   *)
(* CLEANUP runs before the error reaches the caller: a session never ends  *)
(* without CLEANUP having been entered.                                    *)
(***************************************************************************)
C1_CleanupOnEveryExit == SessionOver => CleanupBegun

(***************************************************************************)
(* C2: the three release steps of CLEANUP are attempted independently:     *)
(* once CLEANUP was entered, the session does not end before the loop      *)
(* detach and the remote unmount were attempted too.                       *)
(***************************************************************************)
C2_ReleaseStepsIndependent ==
    (SessionOver /\ CleanupBegun) => (Has("detach") /\ CleanupComplete)

(***************************************************************************)
(* C3: when SYNC or ROTATE failed and a CLEANUP step fails too, the error  *)
(* delivered to the caller is the stage's error: no delivered exception    *)
(* has replaced a pending one.                                             *)
(***************************************************************************)
C3_OriginalErrorDelivered ==
    (SessionOver /\ ctx # "none") => exc = ctx

(***************************************************************************)
(* C4: the sync engine is invoked only after the loop bind, the local      *)
(* mount and the remote mount all succeeded; a MOUNT failure leads to      *)
(* CLEANUP without the sync engine being invoked.                          *)
(***************************************************************************)
C4_SyncOnlyAfterMounts ==
    /\ (SessionStarted /\ Has("btrbk")) =>
          (Has("losetup") /\ Has("mount_local") /\ Has("mount_remote"))
    /\ (SessionOver /\ (Has("mount_remote_failed")
                        \/ exc \in {"CalledProcessError:losetup",
                                    "CalledProcessError:mount"})) =>
          (CleanupBegun /\ ~Has("btrbk"))

(***************************************************************************)
(* C5: if the sync engine exits non-zero, CLEANUP issues the local         *)
(* unmount, the loop detach and the remote unmount exactly once each.      *)
(***************************************************************************)
C5_CleanupOnceAfterSyncFailure ==
    (SessionOver /\ SyncFailed) =>
        /\ Count("umount_local") = 1
        /\ Cardinality({i \in SessIdx : log[i] = "detach"}) = 1
        /\ Count("umount_remote") = 1

(***************************************************************************)
(* C6: the stages run in the order PROBE, MOUNT, SYNC, ROTATE, CLEANUP,    *)
(* each command at most once; after a failed stage only CLEANUP follows    *)
(* (a failed SYNC deletes and snapshots nothing); the failure is re-raised *)
(* after CLEANUP.                                                          *)
(***************************************************************************)
StageOf(cmd) ==
    CASE cmd = "parted_local" -> 1
      [] cmd \in {"losetup", "mount_local", "mount_remote",
                  "mount_remote_failed"} -> 2
      [] cmd = "btrbk" -> 3
      [] cmd \in {"subvol_delete", "subvol_list", "subvol_snapshot",
                  "set_default"} -> 4
      [] OTHER -> 5

StagesInOrder ==
    \A i, j \in SessIdx :
        i < j => (StageOf(log[i]) <= StageOf(log[j]) /\ log[i] # log[j])

OnlyCleanupAfterFailure ==
    /\ Has("mount_remote_failed") => ~Has("btrbk")
    /\ SyncFailed => ~(Has("subvol_delete") \/ Has("subvol_snapshot"))

ReraisedAfterCleanup ==
    (SessionOver /\ exc # "none") => (CleanupComplete /\ ctx = "none")

C6_StagesSequential ==
    StagesInOrder /\ OnlyCleanupAfterFailure /\ ReraisedAfterCleanup

(***************************************************************************)
(* C7: the rotation is atomic: when a writable subvolume was there before  *)
(* ROTATE, one is there after ROTATE, whether ROTATE succeeded or failed.  *)
(***************************************************************************)
C7_RotateNeverLosesSubvolume ==
    (Has("subvol_delete") /\ pc \in AfterRotate
        /\ atStart.file.rw # "absent") => file.rw # "absent"

(***************************************************************************)
(* C8: when the output file exists and its length differs from the probed  *)
(* remote disk size, the run ends with status 1 without any loop bind,     *)
(* mount or sync, and with the image file and the mount state untouched.   *)
(***************************************************************************)
RemoteSizeProbed ==
    get_partitions_ssh.err = "none" /\ IsInt(get_partitions_ssh.disk_size)

FoundWithOtherSize ==
    /\ pc # "idle"
    /\ atStart.file.exists
    /\ RemoteSizeProbed
    /\ atStart.file.size # int(get_partitions_ssh.disk_size)

NoSessionActivity ==
    \A i \in 1 .. Len(log) :
        log[i] \in {"stat", "parted_remote"}

C8_SizeMismatchAborts ==
    FoundWithOtherSize =>
        /\ NoSessionActivity
        /\ World = atStart
        /\ pc = "exited" => exitCode = 1
        /\ pc \in {"connect", "stat", "check_size", "exited"}

C8_Witness ==
    /\ FoundWithOtherSize
    /\ pc = "exited"
    /\ exc = "SystemExit"
    /\ log = <<"stat", "parted_remote">>

(***************************************************************************)
(* C9: the initializer runs in a run exactly when the output file does not *)
(* exist when the run checks for it; a file found with the probed remote   *)
(* size is not truncated, copied into or reformatted, and the run goes     *)
(* from the size check straight to the backup session.                     *)
(***************************************************************************)
FoundWithSameSize ==
    /\ atStart.file.exists
    /\ RemoteSizeProbed
    /\ atStart.file.size = int(get_partitions_ssh.disk_size)

C9_InitializerIffNoFile ==
    /\ Has("stat") => (InitializerRan <=> ~atStart.file.exists)
    /\ pc \in InitPcs => InitializerRan
    /\ (FoundWithSameSize /\ Has("parted_remote")) =>
          /\ pc = "bk_probe" \/ SessionStarted
          /\ ~(Has("truncate") \/ Has("dd") \/ Has("mkfs"))
          /\ file.size = atStart.file.size
          /\ file.copied = atStart.file.copied
          /\ file.fs = atStart.file.fs

C9_Witness ==
    /\ FoundWithSameSize
    /\ pc = "exited"
    /\ exitCode = 0
    /\ ~InitializerRan
    /\ log[3] = "parted_local"

(***************************************************************************)
(* C10: in the initializer, once the image file is bound to the loop       *)
(* device, the detach is issued whether mkfs succeeds or fails: the        *)
(* initializer does not end after mkfs without the detach.                 *)
(***************************************************************************)
C10_InitializerAlwaysDetaches ==
    (InitializerRan /\ Has("mkfs") /\ pc \notin InitPcs) => Has("detach")

(***************************************************************************)
(* C11: when one of the initializer's steps 4 to 6 fails (creating and     *)
(* sizing the file; the raw copy, a copy that delivers fewer bytes than    *)
(* requested included; loop bind, mkfs, detach), the run aborts and the    *)
(* backup session is not started in that run.                              *)
(***************************************************************************)
\* the raw copy of this run delivered fewer bytes than were requested
CopyShort ==
    InitializerRan /\ Has("dd") /\ pc # "init_copy"
       /\ file.exists /\ file.copied < CopyRequest(btrfs_start)

\* the run ended inside the initializer: one of its steps raised
InitializerFailed == InitializerRan /\ pc = "exited" /\ ~Has("parted_local")

C11_InitializerFailureAborts ==
    /\ CopyShort => ~SessionStarted
    /\ (CopyShort /\ pc = "exited") => exitCode = 1
    /\ InitializerFailed => exitCode = 1

(***************************************************************************)
(* C12: the number of bytes the initializer asks dd to copy equals the     *)
(* start offset of the filesystem-bearing partition, for every offset,     *)
(* offsets that are no multiple of 1024 included.                          *)
(***************************************************************************)
C12_CopyLengthIsOffset ==
    (InitializerRan /\ Has("dd")) => CopyRequest(btrfs_start) = btrfs_start

(***************************************************************************)
(* The selection of run_backup on its own: ROTATE from the listing on,     *)
(* started on a mounted image that holds any subvolumes of SelNames.       *)
(***************************************************************************)
\* most subvolumes, besides @, in the filesystem of the image
MaxLines == 3

Snap9 == <<64, 46, 57>>                \* "@.9"
Snap10 == <<64, 46, 49, 48>>           \* "@.10"
Upper == <<65, 46, 49>>                \* "A.1"
SelNames == {Snap1, Snap9, Snap10, Other, Upper}

SeqsUpTo(S, n) == UNION {[1 .. k -> S] : k \in 0 .. n}

InitSel ==
    /\ pc = "bk_list"
    /\ runs = 1
    /\ dev = 1
    /\ \E sv \in SeqsUpTo(SelNames, MaxLines), had \in {"absent", "orig"} :
         /\ file = [PreFile(8192, sv) EXCEPT !.rw = had, !.isDefault = FALSE]
         /\ atStart = [file |-> PreFile(8192, sv), loopBound |-> FALSE,
                       localMounted |-> FALSE, remoteMounted |-> FALSE]
    /\ loopBound = TRUE
    /\ localMounted = TRUE
    /\ remoteMounted = TRUE
    /\ geo = NoGeometry("none")
    /\ uuid = FALSE
    /\ btrfs_start = 0
    /\ lines = <<>>
    /\ newest_snapshot = NoName
    /\ exc = "none"
    /\ ctx = "none"
    /\ exitCode = -1
    /\ log = <<"stat", "parted_remote", "parted_local", "losetup",
               "mount_local", "mount_remote", "btrbk", "subvol_delete">>
    /\ arg = <<>>
    /\ ret = <<>>

NextSel ==
    \/ BkList
    \/ BkSelect
    \/ BkSnapshot
    \/ BkSetDefault
    \/ BkUmount
    \/ BkDetach
    \/ BkUmountRemote

SpecSel == InitSel /\ [][NextSel]_vars

(***************************************************************************)
(* C13: the selection returns the greatest name, in string order, among    *)
(* the listed names that start with "@."; when there is none it raises     *)
(* (NoSnapshotError) and no snapshot is promoted.                          *)
(***************************************************************************)
\* the selection loop has run on a listing
Selected == lines # <<>> /\ pc \notin {"bk_list", "bk_select"}

\* the subvolumes of the image whose name starts with "@."
Matching ==
    {n \in {file.subvols[i] : i \in 1 .. Len(file.subvols)} :
        startswith(n, Prefix)}

C13_SelectsGreatestMatching ==
    Selected =>
        IF Matching = {}
        THEN /\ newest_snapshot = NoName
             /\ "ValueError:nosnap" \in {exc, ctx}
             /\ ~Has("subvol_snapshot")
             /\ file.rw # "snap"
        ELSE /\ newest_snapshot \in Matching
             /\ \A m \in Matching : ~StrGt(m, newest_snapshot)

C13_Witness ==
    /\ Selected
    /\ file.subvols = <<Snap9, Snap10, Other>>
    /\ newest_snapshot = Snap9
    /\ file.rw = "snap"
    /\ file.rwSrc = Snap9

(***************************************************************************)
(* C14: when a session completes without error, the writable subvolume at  *)
(* the subvolume's path is a snapshot of the selected newest snapshot and  *)
(* is the default subvolume, whether or not a writable subvolume existed   *)
(* when ROTATE began.                                                      *)
(***************************************************************************)
C14_CompletedSessionPromotesNewest ==
    (SessionOver /\ exitCode = 0) =>
        /\ file.rw = "snap"
        /\ file.rwSrc = newest_snapshot
        /\ newest_snapshot # NoName
        /\ file.isDefault

(***************************************************************************)
(* C15: both probe entry points fail with ProbeError (RuntimeError         *)
(* "Failed to run parted") whenever the partition-listing command exits    *)
(* non-zero, and otherwise return what the parser makes of its output.     *)
(***************************************************************************)
\* exit status of the remote parted: non-zero on the device where it
\* prints nothing on stdout
RemoteExit(d) == IF Listings[d] = <<<<Txt("")>>>> THEN 1 ELSE 0

\* the run ended in the probe that was issued last
EndedInProbe(cmd) == pc = "exited" /\ log # <<>> /\ log[Len(log)] = cmd

C15_ProbeErrorOnNonZeroExit ==
    /\ (Has("parted_remote") /\ RemoteExit(dev) # 0) =>
          (pc = "exited" /\ exc = "RuntimeError:parted")
    /\ (EndedInProbe("parted_local") /\ file.copied < 512) =>
          exc = "RuntimeError:parted"
    /\ (pc = "init_blkid" /\ RemoteExit(dev) = 0) =>
          geo = parse_parted_output(Listings[dev])

(***************************************************************************)
(* get_partition_device.  Device paths are strings: sequences of character *)
(* codes.                                                                  *)
(***************************************************************************)
RECURSIVE Decimal(_)
\* "{}".format(n) for a natural number
Decimal(n) == IF n < 10 THEN <<48 + n>>
              ELSE Decimal(n \div 10) \o <<48 + (n % 10)>>

SlashDev == <<47, 100, 101, 118, 47>>                      \* "/dev/"
SlashDevMmcblk == SlashDev \o <<109, 109, 99, 98, 108, 107>> \* "/dev/mmcblk"
SlashDevNvme == SlashDev \o <<110, 118, 109, 101>>          \* "/dev/nvme"
LetterP == <<112>>                                          \* "p"

\* only the memory-card prefix is recognised
get_partition_device_MmcOnly(device, part_num) ==
    IF startswith(device, SlashDevMmcblk)
    THEN device \o LetterP \o Decimal(part_num)
    ELSE device \o Decimal(part_num)

get_partition_device(device, part_num) ==
    IF startswith(device, SlashDevMmcblk) \/ startswith(device, SlashDevNvme)
    THEN device \o LetterP \o Decimal(part_num)
    ELSE device \o Decimal(part_num)

(***************************************************************************)
(* The parser and the resolver called on their own, on arguments drawn     *)
(* from bounded sets.                                                      *)
(***************************************************************************)
\* most partition lines of a listing
MaxParts == 3
\* greatest partition index
MaxPartNum == 3

BlankLine == <<Txt("")>>
\* a line of four fields
ShortLine == <<Num(5), NumB(10), NumB(20), NumB(11)>>
PartLines == {PartLine(1, 1024, 2047, "fat32"), PartLine(2, 2048, 8191, "btrfs"),
              PartLine(3, 2560, 4095, ""), BlankLine, ShortLine}

\* listings of fewer than three lines, and of a header, a disk line and up
\* to MaxParts further lines
ParseInputs ==
    {<<BlankLine>>, <<Header>>, <<Header, DiskLine(8192)>>, <<Header, BlankLine>>}
    \cup {<<Header, DiskLine(8192)>> \o ps :
             ps \in SeqsUpTo(PartLines, MaxParts) \ {<<>>}}

DevMmc0 == SlashDevMmcblk \o <<48>>                 \* "/dev/mmcblk0"
DevMmc1 == SlashDevMmcblk \o <<49>>                 \* "/dev/mmcblk1"
DevNvme == SlashDevNvme \o <<48, 110, 49>>          \* "/dev/nvme0n1"
DevSda == SlashDev \o <<115, 100, 97>>              \* "/dev/sda"
DevVdb == SlashDev \o <<118, 100, 98>>              \* "/dev/vdb"
DevLoop == SlashDev \o <<108, 111, 111, 112, 48>>   \* "/dev/loop0"
DevNvm == SlashDev \o <<110, 118, 109>>             \* "/dev/nvm"
DevMmc == SlashDev \o <<109, 109, 99>>              \* "/dev/mmc"
DevSdnvme == SlashDev \o <<115, 100>> \o <<110, 118, 109, 101>> \* "/dev/sdnvme"
DeviceNames == {DevMmc0, DevMmc1, DevNvme, DevSda, DevVdb, DevLoop, DevNvm,
                DevMmc, DevSdnvme}

ParseCall(out) == [fn |-> "parse_parted_output", output |-> out,
                   device |-> <<>>, part_num |-> 0]
ResolveCall(d, k) == [fn |-> "get_partition_device", output |-> <<>>,
                      device |-> d, part_num |-> k]

InitFn ==
    /\ pc = "call"
    /\ arg \in {ParseCall(out) : out \in ParseInputs}
          \cup {ResolveCall(d, k) : d \in DeviceNames, k \in 1 .. MaxPartNum}
    /\ ret = <<>>
    /\ runs = 0
    /\ dev = 1
    /\ file = NoFile
    /\ loopBound = FALSE
    /\ localMounted = FALSE
    /\ remoteMounted = FALSE
    /\ geo = NoGeometry("none")
    /\ uuid = FALSE
    /\ btrfs_start = 0
    /\ lines = <<>>
    /\ newest_snapshot = NoName
    /\ exc = "none"
    /\ ctx = "none"
    /\ exitCode = -1
    /\ log = <<>>
    /\ atStart = [file |-> NoFile, loopBound |-> FALSE, localMounted |-> FALSE,
                  remoteMounted |-> FALSE]

Main == <<runs, dev, file, Mounts, Locals, exc, ctx, exitCode, log, atStart>>

CallParse ==
    /\ pc = "call"
    /\ arg.fn = "parse_parted_output"
    /\ ret' = parse_parted_output(arg.output)
    /\ pc' = "returned"
    /\ UNCHANGED <<arg, Main>>

CallResolve ==
    /\ pc = "call"
    /\ arg.fn = "get_partition_device"
    /\ ret' = get_partition_device(arg.device, arg.part_num)
    /\ pc' = "returned"
    /\ UNCHANGED <<arg, Main>>

NextFn ==
    \/ CallParse
    \/ CallResolve

SpecFn == InitFn /\ [][NextFn]_vars

Parsed == pc = "returned" /\ arg.fn = "parse_parted_output"
Resolved == pc = "returned" /\ arg.fn = "get_partition_device"

(***************************************************************************)
(* C16: for a listing of at least 3 lines the parser returns one record    *)
(* per partition line of at least 5 fields, in listing order, with size =  *)
(* end - start; lines of fewer than 5 fields raise nothing and give no     *)
(* record.                                                                 *)
(***************************************************************************)
\* the partition lines of the listing that have at least 5 fields
DataLines(out) == {i \in 3 .. Len(out) : Len(out[i]) >= 5}
\* the k-th of them, in listing order
KthDataLine(out, k) ==
    CHOOSE i \in DataLines(out) :
        Cardinality({j \in DataLines(out) : j <= i}) = k

C16_OneRecordPerDataLine ==
    (Parsed /\ Len(arg.output) >= 3) =>
        /\ ret.err = "none"
        /\ Len(ret.partitions) = Cardinality(DataLines(arg.output))
        /\ \A k \in 1 .. Len(ret.partitions) :
              LET ln == arg.output[KthDataLine(arg.output, k)] IN
              /\ ret.partitions[k].part_num = ln[1]
              /\ ret.partitions[k].start.n = ln[2].n
              /\ ret.partitions[k].fs_type = ln[5]
              /\ ret.partitions[k].size = ln[3].n - ln[2].n

C16_Witness ==
    /\ Parsed
    /\ arg.output = <<Header, DiskLine(8192), ShortLine,
                      PartLine(2, 2048, 8191, "btrfs"), BlankLine>>
    /\ Len(ret.partitions) = 1
    /\ ret.partitions[1].size = 6143

(***************************************************************************)
(* C17: a listing of fewer than 3 lines makes the parser fail              *)
(* (ValueError "Invalid parted output") and no geometry is returned.       *)
(***************************************************************************)
C17_ShortListingFails ==
    (Parsed /\ Len(arg.output) < 3) => ret = NoGeometry("ValueError")

C17_Witness ==
    /\ Parsed
    /\ arg.output = <<Header, DiskLine(8192)>>
    /\ ret.err = "ValueError"

(***************************************************************************)
(* C18: the resolver returns device + "p" + index for the devices named    *)
(* /dev/mmcblk* and /dev/nvme*, and device + index for every other device. *)
(***************************************************************************)
\* the devices of DeviceNames that follow the mmcblk* or nvme* naming
PatternDevices == {DevMmc0, DevMmc1, DevNvme}

C18_ResolverSeparator ==
    Resolved =>
        /\ ret = IF arg.device \in PatternDevices
                 THEN arg.device \o <<112>> \o Decimal(arg.part_num)
                 ELSE arg.device \o Decimal(arg.part_num)
        /\ (arg.device = DevMmc0 /\ arg.part_num = 2) =>
              ret = <<47, 100, 101, 118, 47, 109, 109, 99, 98, 108, 107, 48,
                      112, 50>>
        /\ (arg.device = DevSda /\ arg.part_num = 2) =>
              ret = <<47, 100, 101, 118, 47, 115, 100, 97, 50>>
        /\ (arg.device = DevNvme /\ arg.part_num = 1) =>
              ret = <<47, 100, 101, 118, 47, 110, 118, 109, 101, 48, 110, 49,
                      112, 49>>

C18_Witness ==
    /\ Resolved
    /\ arg.device = DevNvme
    /\ arg.part_num = 1
    /\ ret = DevNvme \o <<112, 49>>

(***************************************************************************)
(* C19: over any sequence of runs against the same output file, a backup   *)
(* session is started only on an image whose initialization completed: a   *)
(* run that skips the initializer starts its session on an image with the  *)
(* raw copy made and the filesystem created.                               *)
(***************************************************************************)
C19_SessionOnlyOnInitializedImage ==
    (SessionStarted /\ ~InitializerRan) => (file.fs /\ file.copied > 0)

(***************************************************************************)
(* C20: when the initializer does not fail, the partition whose start      *)
(* bounds the raw copy (the first btrfs partition of the probed geometry)  *)
(* is partition 2, the one whose identifier is read and on whose image     *)
(* slot the filesystem is created.                                         *)
(***************************************************************************)
\* the initializer of this run returned to main
InitializerReturned == InitializerRan /\ SessionStarted

C20_CopyBoundIsPartition2 ==
    InitializerReturned =>
        LET i == FirstBtrfs(geo.partitions, 1) IN
        /\ i # 0
        /\ geo.partitions[i].part_num = Num(2)
        /\ btrfs_start = int(geo.partitions[i].start)

====
